---- MODULE Spec2Model ----
(***************************************************************************)
(* Model of the medical-codex pipeline: the file acquisition routine       *)
(* ensure_file (utils/common_functions.py), its archive member selection,  *)
(* and the NPI check-digit validation (scripts/npi_processor.py).          *)
(*                                                                         *)
(* Text values (file names, URLs, regular expressions, code strings) are   *)
(* sequences of one-character strings, so that suffix tests, substring     *)
(* searches and case folding are computed.  An optional value (Python      *)
(* None) is a sequence of length 0 or 1: <<>> is None, <<v>> is v.         *)
(***************************************************************************)
EXTENDS Integers, Sequences, FiniteSets, TLC

\* ------------------------------------------------------------------ bounds

\* Largest value of the retries argument of ensure_file that is explored.
MaxRetries == 2

\* Largest number of entries of an archive in the member-selection runs.
MaxMembers == 2

\* Number of consecutive digit positions of an NPI that range over 0..9.
NpiFree == 3

\* ------------------------------------------------------------ text helpers

None == <<>>

Some(v) == <<v>>

\* Bind(v, F) is F(v) with v evaluated once: a local variable assignment.
Bind(v, F(_)) == CHOOSE r \in { F(t) : t \in {v} } : TRUE

\* Python truthiness of an Optional[str]: None and "" are both false.
Truthy(opt) == opt /= None /\ opt[1] /= <<>>

UpperAlpha ==
    <<"A","B","C","D","E","F","G","H","I","J","K","L","M",
      "N","O","P","Q","R","S","T","U","V","W","X","Y","Z">>

LowerAlpha ==
    <<"a","b","c","d","e","f","g","h","i","j","k","l","m",
      "n","o","p","q","r","s","t","u","v","w","x","y","z">>

LowerChar(c) ==
    IF \E i \in 1..26 : UpperAlpha[i] = c
    THEN LowerAlpha[CHOOSE i \in 1..26 : UpperAlpha[i] = c]
    ELSE c

\* str.lower()
Lower(s) == [i \in 1..Len(s) |-> LowerChar(s[i])]

\* str.endswith(suffix)
EndsWith(s, suf) ==
    /\ Len(s) >= Len(suf)
    /\ SubSeq(s, Len(s) - Len(suf) + 1, Len(s)) = suf

\* "sub in s"
Contains(s, sub) ==
    \E i \in 1..(Len(s) - Len(sub) + 1) : SubSeq(s, i, i + Len(sub) - 1) = sub

\* re.compile(pattern).search(name) for the patterns explored here, which are
\* literal texts (no metacharacters): a literal matches where it occurs.
re_search(pattern, name) == Contains(name, pattern)

\* Index of the last occurrence of character c in s, 0 when there is none
\* (str.rfind, 1-based).
RFind(s, c) ==
    Bind(s, LAMBDA t :
        IF \E i \in 1..Len(t) : t[i] = c
        THEN CHOOSE i \in 1..Len(t) : t[i] = c /\ \A j \in (i+1)..Len(t) : t[j] /= c
        ELSE 0)

\* Last component of a "/"-separated path (PurePath.name).
BaseName(s) == Bind(s, LAMBDA t : SubSeq(t, RFind(t, "/") + 1, Len(t)))

\* pathlib suffix of a file name: the text from the last dot of the last
\* component, unless that dot is the component's first or last character.
PathSuffix(name) ==
    Bind(BaseName(name), LAMBDA b :
        Bind(RFind(b, "."), LAMBDA i :
            IF 1 < i /\ i < Len(b) THEN SubSeq(b, i, Len(b)) ELSE <<>>))

\* --------------------------------------------------------- text constants

S_csv == <<".","c","s","v">>
S_txt == <<".","t","x","t">>
S_tsv == <<".","t","s","v">>
S_zip == <<".","z","i","p">>
S_zipword == <<"z","i","p">>

N_header_csv == <<"h","e","a","d","e","r",".","c","s","v">>
N_data_csv == <<"d","a","t","a","_","2","0","2","4","0","1","0","1",".","c","s","v">>
N_data_old_csv == <<"d","a","t","a","_","o","l","d",".","c","s","v">>
N_header_TXT == <<"H","E","A","D","E","R",".","T","X","T">>
N_readme_pdf == <<"r","e","a","d","m","e",".","p","d","f">>
N_docs_dir == <<"d","o","c","s","/">>
N_codes_txt == <<"c","o","d","e","s",".","t","x","t">>

P_header == <<"h","e","a","d","e","r">>
P_data == <<"d","a","t","a">>
P_nomatch == <<"s","c","h","e","m","a">>

U_env_zip == <<"e","/","a",".","z","i","p">>
U_env_csv == <<"e","/","a",".","c","s","v">>
U_def_zip == <<"d","/","b",".","z","i","p">>
U_def_csv == <<"d","/","b",".","c","s","v">>
N_README == <<"R", "E", "A", "D", "M", "E">>
U_def_zip_query == <<"d", "/", "b", ".", "z", "i", "p", "?", "v", "=", "1">>

CT_csv == <<"t","e","x","t","/","c","s","v">>
CT_zip == <<"A","p","p","l","i","c","a","t","i","o","n","/","Z","i","p">>

\* ------------------------------------------------ archive member selection

\* One entry of ZipFile.infolist().  integrity says what reading the entry
\* does: "ok" (read returns file_size bytes), "bad_header" (zf.open raises),
\* "bad_crc" (read raises after the bytes were consumed).
ZI(name, size, integ) == [filename |-> name, file_size |-> size, integrity |-> integ]

\* ZipInfo.is_dir(): the entry name ends with a slash.
is_dir(zi) == EndsWith(zi.filename, <<"/">>)

\* name.lower().endswith((".csv", ".txt", ".tsv"))
is_textual(name) ==
    Bind(Lower(name), LAMBDA lowered :
        \E e \in {S_csv, S_txt, S_tsv} : EndsWith(lowered, e))

\* members = [zi for zi in zf.infolist() if not zi.is_dir()]
MembersOf(infolist) == SelectSeq(infolist, LAMBDA zi : ~is_dir(zi))

\* candidates = [zi for zi in members if is_textual(zi.filename)]
TextualOf(members) == SelectSeq(members, LAMBDA zi : is_textual(zi.filename))

\* Variant of ApplyPrefer that keeps the narrowing even when it leaves nothing.
ApplyPrefer_Strict(candidates, prefer_regex) ==
    IF Truthy(prefer_regex)
    THEN SelectSeq(candidates, LAMBDA zi : re_search(prefer_regex[1], zi.filename))
    ELSE candidates

\* The prefer_regex narrowing: kept only when it leaves something.
ApplyPrefer(candidates, prefer_regex) ==
    IF Truthy(prefer_regex)
    THEN LET preferred ==
                 SelectSeq(candidates, LAMBDA zi : re_search(prefer_regex[1], zi.filename))
         IN  IF preferred /= <<>> THEN preferred ELSE candidates
    ELSE candidates

\* Variant of ApplyExclude with the test inverted: the matching entries stay.
ApplyExclude_Inverted(candidates, exclude_regex) ==
    IF Truthy(exclude_regex)
    THEN SelectSeq(candidates, LAMBDA zi : re_search(exclude_regex[1], zi.filename))
    ELSE candidates

\* The exclude_regex removal.
ApplyExclude(candidates, exclude_regex) ==
    IF Truthy(exclude_regex)
    THEN SelectSeq(candidates, LAMBDA zi : ~re_search(exclude_regex[1], zi.filename))
    ELSE candidates

\* Variant of FinalCandidates that falls back to the textual entries first, and
\* to every member only when there is none.
FinalCandidates_TextualFallback(members, prefer_regex, exclude_regex) ==
    LET candidates ==
            ApplyExclude(ApplyPrefer(TextualOf(members), prefer_regex), exclude_regex)
    IN  IF candidates /= <<>> THEN candidates
        ELSE IF TextualOf(members) /= <<>> THEN TextualOf(members)
        ELSE members

\* The candidate list max() is taken over: the filtered textual entries, or
\* every member when the filters left nothing.
FinalCandidates(members, prefer_regex, exclude_regex) ==
    LET candidates ==
            ApplyExclude(ApplyPrefer(TextualOf(members), prefer_regex), exclude_regex)
    IN  IF candidates = <<>> THEN members ELSE candidates

\* Variant of MaxBySize that takes the last entry of maximal size.
MaxBySize_Last(candidates) ==
    Bind(candidates, LAMBDA c :
        c[CHOOSE i \in 1..Len(c) :
             /\ \A j \in 1..Len(c) : c[j].file_size <= c[i].file_size
             /\ \A j \in (i + 1)..Len(c) : c[j].file_size < c[i].file_size])

\* max(candidates, key=lambda zi: zi.file_size): the first entry of maximal size.
MaxBySize(candidates) ==
    Bind(candidates, LAMBDA c :
        c[CHOOSE i \in 1..Len(c) :
             /\ \A j \in 1..Len(c) : c[j].file_size <= c[i].file_size
             /\ \A j \in 1..(i - 1) : c[j].file_size < c[i].file_size])

\* chosen, for a non-empty member list.
ChooseMember(members, prefer_regex, exclude_regex) ==
    MaxBySize(FinalCandidates(members, prefer_regex, exclude_regex))

\* ------------------------------------------------------------- file system

\* A path is raw_path or raw_path with another suffix.
RawStem == "input/codes"

raw_path == [stem |-> RawStem, suffix |-> S_csv]

\* Path.with_suffix
with_suffix(path, suffix) == [path EXCEPT !.suffix = suffix]

\* The bytes of a file, as where they came from and how many there are.
Bytes(origin, name, len) == [origin |-> origin, name |-> name, len |-> len]

EmptyBytes == Bytes("empty", <<>>, 0)

Absent == None

\* Path.exists()
Exists(files, path) == files[path] /= Absent

\* open(path, "wb"): creates the file or truncates it to nothing.
OpenTruncate(files, path) == [files EXCEPT ![path] = Some(EmptyBytes)]

\* The state after writing data to a freshly opened file and closing it.
WriteAll(files, path, data) ==
    [files EXCEPT ![path] = Some(IF data.len = 0 THEN EmptyBytes ELSE data)]

\* --------------------------------------------------------------- responses

\* The body of a response: its length, and the archive entries when the
\* bytes are a readable zip archive (None when they are not).
Body(len, zip) == [len |-> len, zip |-> zip]

NoBody == Body(0, None)

PlainBody == Body(7, None)

ZipBody(infolist) == Body(22 + Len(infolist), Some(infolist))

\* What requests.get gives: exc (a network or timeout exception), the HTTP
\* status of the final response (redirects with a Location are followed, so a
\* 3xx status is one without), the Content-Type header, the file name of the
\* Content-Disposition header (None when the header is absent or names no
\* file), and the body.
Response(exc, status, ctype, cd, body) ==
    [exc |-> exc, status |-> status, content_type |-> ctype, cd_filename |-> cd,
     body |-> body]

NoResp == Response(FALSE, 0, <<>>, None, NoBody)

\* Variant of raise_for_status that raises for server errors only.
raise_for_status_ServerOnly(status) == status \in 500..599

\* resp.raise_for_status(): HTTPError for a 4xx or 5xx status, for no other
raise_for_status(status) == status \in 400..599

\* Archives served to ensure_file.
Archives ==
    { <<>>,
      <<ZI(N_docs_dir, 0, "ok")>>,
      <<ZI(N_header_csv, 10, "ok"), ZI(N_data_csv, 50000, "ok")>>,
      <<ZI(N_header_csv, 0, "ok")>>,
      <<ZI(N_data_csv, 50000, "bad_crc")>>,
      <<ZI(N_header_TXT, 10, "bad_header")>>,
      <<ZI(N_header_TXT, 10, "ok")>>,
      <<ZI(N_README, 5, "ok")>> }

Responses ==
    { Response(TRUE, 0, <<>>, None, NoBody),
      Response(FALSE, 404, CT_csv, None, PlainBody),
      Response(FALSE, 200, CT_csv, None, NoBody),
      Response(FALSE, 300, CT_csv, None, PlainBody),
      Response(FALSE, 200, CT_csv, Some(N_codes_txt), PlainBody) }
    \cup { Response(FALSE, 200, ct, None, b) :
             ct \in {CT_csv, CT_zip},
             b \in {PlainBody} \cup { ZipBody(a) : a \in Archives } }

\* What open(target_path, "wb") does: it succeeds, or it raises OSError and
\* nothing changes (the target is not writable).
IoOutcomes == {"ok", "open_fails"}

\* -------------------------------------------------------------- ensure_file

VARIABLES
    pc,             \* position in ensure_file
    env_value,      \* value of the environment variable url_env_var (None: unset)
    url_override,   \* argument url_override
    retries,        \* argument retries
    prefer_regex,   \* argument prefer_regex
    exclude_regex,  \* argument exclude_regex
    files,          \* the file system: path -> None or the file's bytes
    url,            \* local url
    attempt,        \* loop variable attempt
    resp,           \* local resp of the current attempt
    last_error,     \* local last_error
    returned,       \* the path returned (None before the return)
    raised,         \* the exception raised out of ensure_file (None if none)
    files0,         \* history: the file system when ensure_file was called
    gets,           \* history: the URL of every requests.get call, in order
    outcomes,       \* history: how every finished attempt ended
    via,            \* history: the branch that returned
    sel,            \* member-selection runs: input and result
    npi,            \* NPI validation runs: input and result
    tab,            \* processor runs: the table read, validated, cleaned
    cols,           \* column lookups: the header read and the columns found
    res             \* resolver runs: the probes made and the URL returned

inputs == <<env_value, url_override, retries, prefer_regex, exclude_regex, files0>>

others == <<sel, npi, tab, cols, res>>

vars ==
    <<pc, env_value, url_override, retries, prefer_regex, exclude_regex, files, url,
      attempt, resp, last_error, returned, raised, files0, gets, outcomes, via, sel, npi,
      tab, cols, res>>

Paths ==
    { with_suffix(raw_path, x) :
        x \in {S_csv, S_txt} \cup
              { PathSuffix(n) : n \in {N_header_csv, N_data_csv, N_header_TXT, N_codes_txt} } }

NoFiles == [p \in Paths |-> Absent]

LocalBytes == Bytes("local", <<>>, 7)

\* os.getenv(name, default)
getenv(value, default) == IF value = None THEN default ELSE value[1]

\* Variant of EffectiveUrl in which the supplied default comes first.
EffectiveUrl_OverrideFirst(env_url, override) ==
    IF Truthy(override) THEN override[1] ELSE env_url

\* url = env_url or (url_override or "")
EffectiveUrl(env_url, override) ==
    IF env_url /= <<>> THEN env_url
    ELSE IF Truthy(override) THEN override[1] ELSE <<>>

\* Variant of InRange with the upper end one too far.
InRange_OneMore(k, n) == 1 <= k /\ k <= n + 1

\* attempt in range(1, retries + 1)
InRange(k, n) == 1 <= k /\ k <= n

\* is_zip
IsZip(u, content_type) ==
    EndsWith(Lower(u), S_zip) \/ Contains(Lower(content_type), S_zipword)

\* Variant of ExtractTarget that keeps the path as it is.
ExtractTarget_KeepSuffix(path, chosen) == path

\* suffix = Path(chosen.filename).suffix or raw_path.suffix
ExtractTarget(path, chosen) ==
    Bind(PathSuffix(chosen.filename), LAMBDA suffix :
        with_suffix(path, IF suffix /= <<>> THEN suffix ELSE path.suffix))

\* The target of a direct download: raw_path, or raw_path with the suffix of
\* the file name the server suggests when that suffix differs.
DirectTarget(path, cd_filename) ==
    IF cd_filename /= None
    THEN LET suggested == PathSuffix(cd_filename[1])
         IN  IF suggested /= <<>> /\ suggested /= path.suffix
             THEN with_suffix(path, suggested) ELSE path
    ELSE path

\* The FileNotFoundError message: the path checked and, when a URL was
\* tried, the last error.
NotFoundMessage(path, u, err) ==
    [checked |-> path, download_failed |-> IF u /= <<>> THEN Some(err) ELSE None]

InitEnsure ==
    /\ pc = "start"
    /\ env_value \in {None, Some(<<>>), Some(U_env_zip), Some(U_env_csv)}
    /\ url_override \in {None, Some(<<>>), Some(U_def_zip), Some(U_def_csv),
                         Some(U_def_zip_query)}
    /\ retries \in 0..MaxRetries
    /\ \E pe \in {<<None, None>>, <<Some(P_data), Some(P_header)>>} :
          prefer_regex = pe[1] /\ exclude_regex = pe[2]
    /\ files0 \in { [NoFiles EXCEPT ![raw_path] = c] :
                      c \in {Absent, Some(EmptyBytes), Some(LocalBytes)} }
    /\ files = files0
    /\ url = <<>>
    /\ attempt = 0
    /\ resp = NoResp
    /\ last_error = "None"
    /\ returned = None
    /\ raised = None
    /\ gets = <<>>
    /\ outcomes = <<>>
    /\ via = "none"

IdleTables ==
    /\ tab = [stage |-> "idle"]
    /\ cols = [stage |-> "idle"]
    /\ res = [stage |-> "idle"]

IdleOthers ==
    /\ sel = [stage |-> "idle"]
    /\ npi = [stage |-> "idle"]
    /\ IdleTables

Init == InitEnsure /\ IdleOthers

\* ensure_file is not running (the runs of the other operations).
IdleEnsure ==
    /\ pc = "idle"
    /\ env_value = None
    /\ url_override = None
    /\ retries = 0
    /\ prefer_regex = None
    /\ exclude_regex = None
    /\ files0 = NoFiles
    /\ files = NoFiles
    /\ url = <<>>
    /\ attempt = 0
    /\ resp = NoResp
    /\ last_error = "None"
    /\ returned = None
    /\ raised = None
    /\ gets = <<>>
    /\ outcomes = <<>>
    /\ via = "none"

ensure_vars ==
    <<pc, env_value, url_override, retries, prefer_regex, exclude_regex, files, url,
      attempt, resp, last_error, returned, raised, files0, gets, outcomes, via>>

\* Variant of Fail in which the last failed attempt raises at once instead of
\* falling through to the local file check.
Fail_NoFallback(err, files_new) ==
    /\ last_error' = err
    /\ files' = files_new
    /\ resp' = NoResp
    /\ outcomes' = Append(outcomes, "failed")
    /\ IF InRange(attempt + 1, retries)
       THEN pc' = "downloading" /\ attempt' = attempt + 1 /\ UNCHANGED raised
       ELSE /\ pc' = "failed" /\ attempt' = attempt
            /\ raised' = Some(NotFoundMessage(raw_path, url, err))
    /\ UNCHANGED <<url, returned, via>>

\* except Exception as e: last_error = e, then the next iteration of the
\* loop, or the fall through to the local file check after the last one.
Fail(err, files_new) ==
    /\ last_error' = err
    /\ files' = files_new
    /\ resp' = NoResp
    /\ outcomes' = Append(outcomes, "failed")
    /\ IF InRange(attempt + 1, retries)
       THEN pc' = "downloading" /\ attempt' = attempt + 1
       ELSE pc' = "local_check" /\ attempt' = attempt
    /\ UNCHANGED <<url, returned, raised, via>>

\* return target_path, out of the loop.
ReturnDownloaded(path, files_new, how) ==
    /\ pc' = "done"
    /\ returned' = Some(path)
    /\ files' = files_new
    /\ via' = how
    /\ resp' = NoResp
    /\ outcomes' = Append(outcomes, "ok")
    /\ UNCHANGED <<url, attempt, last_error, raised>>

\* Lines 93-118: the URL is chosen; with a URL the loop is entered.
Start ==
    /\ pc = "start"
    /\ url' = EffectiveUrl(getenv(env_value, <<>>), url_override)
    /\ IF url' /= <<>>
       THEN IF InRange(1, retries)
            THEN pc' = "downloading" /\ attempt' = 1
            ELSE pc' = "local_check" /\ attempt' = 0
       ELSE pc' = "local_check" /\ attempt' = 0
    /\ UNCHANGED <<files, resp, last_error, returned, raised, gets, outcomes, via>>
    /\ UNCHANGED <<inputs, others>>

\* Lines 122-125: one requests.get, raise_for_status and the empty-body test.
Get ==
    /\ pc = "downloading"
    /\ gets' = Append(gets, url)
    /\ \E r \in Responses :
          IF r.exc THEN Fail("ConnectionError", files)
          ELSE IF raise_for_status(r.status) THEN Fail("HTTPError", files)
          ELSE IF r.body.len = 0 THEN Fail("ValueError: Downloaded file is empty", files)
          ELSE /\ pc' = "classify"
               /\ resp' = r
               /\ UNCHANGED <<files, url, attempt, last_error, returned, raised,
                              outcomes, via>>
    /\ UNCHANGED <<inputs, others>>

\* Lines 127-131: archive or direct file.
Classify ==
    /\ pc = "classify"
    /\ pc' = IF IsZip(url, resp.content_type) THEN "extract" ELSE "direct_write"
    /\ UNCHANGED <<files, url, attempt, resp, last_error, returned, raised, gets,
                   outcomes, via>>
    /\ UNCHANGED <<inputs, others>>

\* What lines 157-162 do with the chosen entry: the error raised (None if
\* none), the file system afterwards and the path written.
WriteChosen(chosen, target_path, fs, io) ==
    IF chosen.integrity = "bad_header"
    THEN [err |-> Some("BadZipFile"), files |-> fs, target |-> target_path]
    ELSE IF io = "open_fails"
    THEN [err |-> Some("OSError"), files |-> fs, target |-> target_path]
    ELSE IF chosen.integrity = "bad_crc"
    THEN [err |-> Some("BadZipFile"), files |-> OpenTruncate(fs, target_path),
          target |-> target_path]
    ELSE [err |-> None,
          files |-> WriteAll(fs, target_path,
                             Bytes("member", chosen.filename, chosen.file_size)),
          target |-> target_path]

\* Variant of ExtractResult in which an archive without file entries is no
\* error: nothing is written and raw_path is returned.
ExtractResult_EmptyArchiveOk(body, fs, prefer, exclude, io) ==
    IF body.zip = None
    THEN [err |-> Some("BadZipFile"), files |-> fs, target |-> raw_path]
    ELSE Bind(MembersOf(body.zip[1]), LAMBDA members :
           IF members = <<>>
           THEN [err |-> None, files |-> fs, target |-> raw_path]
           ELSE Bind(ChooseMember(members, prefer, exclude), LAMBDA chosen :
                  Bind(ExtractTarget(raw_path, chosen), LAMBDA target_path :
                     WriteChosen(chosen, target_path, fs, io))))

\* Lines 132-162 as a function of the response body, the file system and
\* what the target file's I/O does.
ExtractResult(body, fs, prefer, exclude, io) ==
    IF body.zip = None
    THEN [err |-> Some("BadZipFile"), files |-> fs, target |-> raw_path]
    ELSE Bind(MembersOf(body.zip[1]), LAMBDA members :
           IF members = <<>>
           THEN [err |-> Some("ValueError: Zip file contains no files"),
                 files |-> fs, target |-> raw_path]
           ELSE Bind(ChooseMember(members, prefer, exclude), LAMBDA chosen :
                  Bind(ExtractTarget(raw_path, chosen), LAMBDA target_path :
                     WriteChosen(chosen, target_path, fs, io))))

\* Lines 132-165: the archive is opened, an entry chosen and written out.
Extract ==
    /\ pc = "extract"
    /\ \E io \in IoOutcomes :
          \E r \in {ExtractResult(resp.body, files, prefer_regex, exclude_regex, io)} :
             IF r.err /= None
             THEN Fail(r.err[1], r.files)
             ELSE ReturnDownloaded(r.target, r.files, "extract")
    /\ UNCHANGED gets
    /\ UNCHANGED <<inputs, others>>

\* Lines 167-180: the body is written to raw_path or its suggested variant.
DirectWrite ==
    /\ pc = "direct_write"
    /\ LET target_path == DirectTarget(raw_path, resp.cd_filename)
       IN  \E io \in IoOutcomes :
              IF io = "open_fails"
              THEN Fail("OSError", files)
              ELSE ReturnDownloaded(
                       target_path,
                       WriteAll(files, target_path, Bytes("body", <<>>, resp.body.len)),
                       "direct")
    /\ UNCHANGED gets
    /\ UNCHANGED <<inputs, others>>

\* Variant of LocalCheck in which exhausted retries are fatal: the local file
\* is used only when no URL was available.
LocalCheck_ExhaustionFatal ==
    /\ pc = "local_check"
    /\ IF Exists(files, raw_path) /\ url = <<>>
       THEN /\ pc' = "done"
            /\ returned' = Some(raw_path)
            /\ via' = "local"
            /\ UNCHANGED raised
       ELSE /\ pc' = "failed"
            /\ raised' = Some(NotFoundMessage(raw_path, url, last_error))
            /\ UNCHANGED <<returned, via>>
    /\ UNCHANGED <<files, url, attempt, resp, last_error, gets, outcomes>>
    /\ UNCHANGED <<inputs, others>>

\* Lines 195-217: the local file is returned when it exists, else
\* FileNotFoundError is raised.
LocalCheck ==
    /\ pc = "local_check"
    /\ IF Exists(files, raw_path)
       THEN /\ pc' = "done"
            /\ returned' = Some(raw_path)
            /\ via' = "local"
            /\ UNCHANGED raised
       ELSE /\ pc' = "failed"
            /\ raised' = Some(NotFoundMessage(raw_path, url, last_error))
            /\ UNCHANGED <<returned, via>>
    /\ UNCHANGED <<files, url, attempt, resp, last_error, gets, outcomes>>
    /\ UNCHANGED <<inputs, others>>

Next == Start \/ Get \/ Classify \/ Extract \/ DirectWrite \/ LocalCheck

Spec == Init /\ [][Next]_vars

\* ensure_file is straight-line blocking code: every step that can be taken
\* is taken (each request is bounded by its timeout).
FairSpec == Spec /\ WF_vars(Next)

\* ------------------------------------------- member selection on its own

\* Entries the archives of the selection runs are built from.
SelPool ==
    { ZI(N_header_csv, 10, "ok"), ZI(N_data_csv, 50000, "ok"),
      ZI(N_data_old_csv, 50000, "ok"), ZI(N_header_TXT, 50000, "ok"),
      ZI(N_readme_pdf, 90000, "ok"), ZI(N_docs_dir, 0, "ok") }

SelArchives == UNION { [1..n -> SelPool] : n \in 0..MaxMembers }

SelPrefers == {None, Some(<<>>), Some(P_data), Some(P_nomatch)}

SelExcludes == {None, Some(P_header), Some(P_data)}

InitSelect ==
    /\ sel \in { [stage |-> "input", infolist |-> a, prefer |-> p, exclude |-> x] :
                   a \in SelArchives, p \in SelPrefers, x \in SelExcludes }
    /\ npi = [stage |-> "idle"]
    /\ IdleTables
    /\ IdleEnsure

\* Lines 133-157 on an archive that has file entries: the locals as the code
\* computes them, one after the other.
SelectChosen ==
    /\ sel.stage = "input"
    /\ MembersOf(sel.infolist) /= <<>>
    /\ sel' =
         Bind(MembersOf(sel.infolist), LAMBDA members :
           Bind(TextualOf(members), LAMBDA textual :
             Bind(ApplyPrefer(textual, sel.prefer), LAMBDA narrowed :
               [stage |-> "chosen", infolist |-> sel.infolist,
                prefer |-> sel.prefer, exclude |-> sel.exclude,
                members |-> members,
                textual |-> textual,
                narrowed |-> narrowed,
                filtered |-> ApplyExclude(narrowed, sel.exclude),
                final |-> FinalCandidates(members, sel.prefer, sel.exclude),
                chosen |-> ChooseMember(members, sel.prefer, sel.exclude)])))
    /\ UNCHANGED <<ensure_vars, npi, tab, cols, res>>

\* Lines 133-135 on an archive without file entries: ValueError.
SelectNoFiles ==
    /\ sel.stage = "input"
    /\ MembersOf(sel.infolist) = <<>>
    /\ sel' = [stage |-> "no_files", infolist |-> sel.infolist,
               prefer |-> sel.prefer, exclude |-> sel.exclude]
    /\ UNCHANGED <<ensure_vars, npi, tab, cols, res>>

NextSelect == SelectChosen \/ SelectNoFiles

SelectSpec == InitSelect /\ [][NextSelect]_vars

\* ------------------------------------------------------------ NPI checking

DigitChars == <<"0","1","2","3","4","5","6","7","8","9">>

IsDigitChar(ch) == \E i \in 1..10 : DigitChars[i] = ch

\* int(ch) for a digit character
int(ch) == (CHOOSE i \in 1..10 : DigitChars[i] = ch) - 1

\* Variant of LuhnParity that starts the doubling one position off.
LuhnParity_Shifted(len) == len % 2

\* parity = (len(digits) + 1) % 2
LuhnParity(len) == (len + 1) % 2

\* The loop body of luhn_check_digit: what the digit at 0-based index idx adds.
LuhnTerm(idx, d, parity) ==
    IF idx % 2 = parity
    THEN IF d * 2 > 9 THEN d * 2 - 9 ELSE d * 2
    ELSE d

RECURSIVE LuhnTotal(_, _, _)
\* total after the first n digits
LuhnTotal(digits, parity, n) ==
    IF n = 0 THEN 0
    ELSE LuhnTotal(digits, parity, n - 1) + LuhnTerm(n - 1, digits[n], parity)

luhn_check_digit(number_without_check) ==
    Bind([i \in 1..Len(number_without_check) |-> int(number_without_check[i])],
         LAMBDA digits :
            (10 - (LuhnTotal(digits, LuhnParity(Len(digits)), Len(digits)) % 10)) % 10)

NpiPrefix == <<"8","0","8","4","0">>

is_valid_npi(npi_str) ==
    Bind(SelectSeq(npi_str, IsDigitChar), LAMBDA digits :
        IF Len(digits) /= 10 THEN FALSE
        ELSE luhn_check_digit(NpiPrefix \o SubSeq(digits, 1, 9)) = int(digits[10]))

NpiKnownValid == <<"1","2","3","4","5","6","7","8","9","3">>

\* The inputs: the known NPI with NpiFree consecutive positions, anywhere in
\* it, replaced by every combination of digits.
NpiInputs ==
    { [i \in 1..10 |-> IF w <= i /\ i < w + NpiFree THEN DigitChars[t[i - w + 1]]
                       ELSE NpiKnownValid[i]] :
        w \in 1..(11 - NpiFree), t \in [1..NpiFree -> 1..10] }

InitNpi ==
    /\ npi \in { [stage |-> "input", s |-> x] : x \in NpiInputs }
    /\ sel = [stage |-> "idle"]
    /\ IdleTables
    /\ IdleEnsure

NpiCheck ==
    /\ npi.stage = "input"
    /\ npi' = [stage |-> "checked", s |-> npi.s, valid |-> is_valid_npi(npi.s)]
    /\ UNCHANGED <<ensure_vars, sel, tab, cols, res>>

NextNpi == NpiCheck

NpiSpec == InitNpi /\ [][NextNpi]_vars

\* ------------------------------------------------------ ensure_file claims

Terminated == pc \in {"done", "failed"}

AllFailed(os) == \A i \in 1..Len(os) : os[i] = "failed"

\* Every attempt the loop allows has been made and has failed.
AttemptsExhausted ==
    /\ Len(outcomes) = Len(gets)
    /\ Len(gets) >= retries
    /\ AllFailed(outcomes)

\* C1: on every successful return of ensure_file the returned path refers to
\* a file that exists and has non-zero size.
C1_ReturnedFileNonEmpty ==
    pc = "done" =>
        /\ Exists(files, returned[1])
        /\ files[returned[1]][1].len > 0

\* C2: every download attempt of one invocation uses the value of the
\* environment variable when it is set and non-empty (also when url_override
\* is supplied), otherwise url_override when supplied and non-empty;
\* otherwise no download attempt is made.
C2_UrlPrecedence ==
    LET expected ==
            IF env_value /= None /\ env_value[1] /= <<>> THEN env_value
            ELSE IF url_override /= None /\ url_override[1] /= <<>> THEN url_override
            ELSE None
    IN  /\ \A i \in 1..Len(gets) : expected /= None /\ gets[i] = expected[1]
        /\ (Terminated /\ expected /= None /\ retries >= 1) => gets /= <<>>

C2_Witness ==
    /\ env_value = Some(U_env_csv)
    /\ url_override = Some(U_def_zip)
    /\ Len(gets) = 2

\* C3: if no download attempt succeeds and no file existed at local_path
\* when ensure_file was called, ensure_file raises the not-found error, whose
\* message names the checked path and, when a URL was tried, the last
\* attempt's error; it never returns a path.
C3_NoSourceRaisesNotFound ==
    (Terminated /\ AllFailed(outcomes) /\ ~Exists(files0, raw_path)) =>
        /\ pc = "failed"
        /\ returned = None
        /\ raised /= None
        /\ raised[1].checked = raw_path
        /\ gets /= <<>> =>
              /\ last_error /= "None"
              /\ raised[1].download_failed = Some(last_error)

\* C4: whenever ensure_file returns local_path through the local-fallback
\* branch, the file at local_path has exactly the contents it had when
\* ensure_file was called.
C4_LocalFallbackUnchanged ==
    (pc = "done" /\ via = "local") => files[raw_path] = files0[raw_path]

\* C5: with no effective URL, or with all max_retries attempts failed, and a
\* file at local_path, ensure_file returns exactly local_path and raises
\* nothing.
C5_FallbackReturnsLocalPath ==
    (/\ pc /= "start"
     /\ url = <<>> \/ AttemptsExhausted
     /\ Exists(files, raw_path) \/ Exists(files0, raw_path))
    => \/ pc = "local_check" /\ Exists(files, raw_path)
       \/ /\ pc = "done"
          /\ returned = Some(raw_path)
          /\ raised = None

C5_Witness ==
    /\ pc = "done"
    /\ via = "local"
    /\ retries = MaxRetries
    /\ Len(gets) = retries
    /\ returned = Some(raw_path)

\* C6: with an effective URL at most max_retries GET attempts are made, one
\* after another (an attempt starts only after every earlier one has
\* failed), and every invocation terminates, by returning a path or by
\* raising the not-found error, with no retry after exhaustion.
C6_BoundedSequentialRetries ==
    /\ [](Len(gets) <= retries)
    /\ [][gets' /= gets =>
            /\ gets' = Append(gets, url)
            /\ Len(outcomes) = Len(gets)
            /\ AllFailed(outcomes)]_vars
    /\ [][(pc \in {"local_check", "done", "failed"}) => (gets' = gets)]_vars
    /\ [](pc = "done" => returned /= None /\ raised = None)
    /\ [](pc = "failed" => returned = None /\ raised /= None)
    /\ <>Terminated

C6_Witness ==
    /\ pc = "failed"
    /\ retries = MaxRetries
    /\ Len(gets) = MaxRetries
    /\ AllFailed(outcomes)

\* The transitions of the state machine as the specification draws it.
StatedStep ==
    \/ pc = "start" /\ pc' = "downloading" /\ url' /= <<>> /\ attempt' = 1
    \/ pc = "start" /\ pc' = "local_check" /\ (url' = <<>> \/ retries < 1)
    \/ pc = "downloading" /\ pc' = "downloading" /\ attempt' = attempt + 1
                          /\ attempt' <= retries
    \/ pc = "downloading" /\ pc' = "local_check" /\ attempt = retries
    \/ pc = "downloading" /\ pc' = "classify"
    \/ pc = "classify" /\ pc' \in {"extract", "direct_write"}
    \/ pc \in {"extract", "direct_write"} /\ pc' = "done"
    \/ pc = "local_check" /\ pc' \in {"done", "failed"}

\* A failed extraction or write is a failed attempt.
FailedWriteStep ==
    /\ pc \in {"extract", "direct_write"}
    /\ \/ pc' = "downloading" /\ attempt' = attempt + 1 /\ attempt' <= retries
       \/ pc' = "local_check" /\ attempt = retries

\* C7 as stated: every execution follows the stated state machine; once an
\* attempt reaches SUCCESS it goes to CLASSIFY, then EXTRACT or DIRECT_WRITE,
\* then DONE, with no further download attempt and no local-file check.
C7_StatedMachine == [][StatedStep]_vars

\* C7 as amended: as stated, except that from EXTRACT or DIRECT_WRITE a
\* failed extraction or write leads to the next download attempt or, after
\* the last attempt, to the local-file check.
C7_MachineWithFailedWrites == [][StatedStep \/ FailedWriteStep]_vars

C7_Witness ==
    /\ pc = "downloading"
    /\ attempt = 2
    /\ last_error = "ValueError: Zip file contains no files"

\* ---------------------------------------------------- selection claims

\* The text p occurs somewhere in the name.
Occurs(p, name) ==
    \E i \in 1..(Len(name) + 1) : \E j \in (i - 1)..Len(name) : SubSeq(name, i, j) = p

Supplied(opt) == opt /= None /\ opt[1] /= <<>>

\* The positions of the archive's textual file entries.
TextualAt(infolist) ==
    { i \in 1..Len(infolist) :
        /\ infolist[i].filename[Len(infolist[i].filename)] /= "/"
        /\ \E e \in {S_csv, S_txt, S_tsv} :
              /\ Len(infolist[i].filename) >= 4
              /\ \A k \in 1..4 :
                    LowerChar(infolist[i].filename[Len(infolist[i].filename) - 4 + k])
                       = e[k] }

\* The positions left by the include narrowing.
NarrowedAt(infolist, prefer) ==
    LET hits == { i \in TextualAt(infolist) : Occurs(prefer[1], infolist[i].filename) }
    IN  IF Supplied(prefer) /\ hits /= {} THEN hits ELSE TextualAt(infolist)

ExampleArchive == <<ZI(N_header_csv, 10, "ok"), ZI(N_data_csv, 50000, "ok")>>

\* C8: with an exclude pattern, whenever at least one textual entry (after
\* include narrowing) does not match the exclude pattern, the selected entry
\* does not match it; for {header.csv: 10, data_20240101.csv: 50000} and an
\* exclude pattern matching "header", data_20240101.csv is selected.
C8_ExcludeHonoured ==
    (sel.stage = "chosen" /\ Supplied(sel.exclude)) =>
        /\ (\E i \in NarrowedAt(sel.infolist, sel.prefer) :
               ~Occurs(sel.exclude[1], sel.infolist[i].filename))
           => ~Occurs(sel.exclude[1], sel.chosen.filename)
        /\ (sel.infolist = ExampleArchive /\ sel.exclude = Some(P_header))
           => sel.chosen.filename = N_data_csv

C8_Witness ==
    /\ sel.stage = "chosen"
    /\ sel.infolist = ExampleArchive
    /\ sel.exclude = Some(P_header)
    /\ sel.prefer = None
    /\ sel.chosen = ZI(N_data_csv, 50000, "ok")

\* C9: if an include pattern is supplied and no textual entry matches it,
\* the narrowing is ignored: the candidates stay the full list of textual
\* entries, then subject to the exclude pattern, and the attempt does not
\* fail for that reason.
C9_EmptyNarrowingIgnored ==
    (/\ sel.stage \in {"chosen", "no_files"}
     /\ Supplied(sel.prefer)
     /\ \A i \in TextualAt(sel.infolist) :
           ~Occurs(sel.prefer[1], sel.infolist[i].filename))
    => IF sel.stage = "no_files"
       THEN \A i \in 1..Len(sel.infolist) :
               sel.infolist[i].filename[Len(sel.infolist[i].filename)] = "/"
       ELSE /\ sel.narrowed = sel.textual
            /\ Len(sel.textual) = Cardinality(TextualAt(sel.infolist))
            /\ sel.filtered =
                 SelectSeq(sel.textual,
                           LAMBDA zi : ~(Supplied(sel.exclude)
                                         /\ Occurs(sel.exclude[1], zi.filename)))
            /\ sel.filtered /= <<>> =>
                  /\ sel.final = sel.filtered
                  /\ \E i \in 1..Len(sel.filtered) : sel.chosen = sel.filtered[i]

C9_Witness ==
    /\ sel.stage = "chosen"
    /\ sel.prefer = Some(P_nomatch)
    /\ sel.exclude = Some(P_header)
    /\ Len(sel.textual) = 2
    /\ sel.narrowed = sel.textual
    /\ Len(sel.filtered) = 1

\* ---------------------------------------------------------- NPI claims

RECURSIVE LuhnSumFromRight(_, _)
\* The Luhn sum over the last r digits of ds, counted from the right: the
\* rightmost digit is doubled, then every second digit moving left.
LuhnSumFromRight(ds, r) ==
    IF r = 0 THEN 0
    ELSE LET d == ds[Len(ds) + 1 - r]
             v == IF r % 2 = 1 THEN (IF 2 * d > 9 THEN 2 * d - 9 ELSE 2 * d) ELSE d
         IN  v + LuhnSumFromRight(ds, r - 1)

\* C10: for every string s of exactly 10 digits, is_valid_npi(s) is true iff
\* the Luhn check digit over the 14 digits "80840" + s[:9] (rightmost digit
\* doubled, then every second digit moving left, 9 subtracted from doubled
\* values above 9, result (10 - (sum mod 10)) mod 10) equals int(s[9]);
\* "1234567893" is valid.
C10_NpiLuhn ==
    (npi.stage = "checked" /\ Len(npi.s) = 10 /\ \A i \in 1..10 : IsDigitChar(npi.s[i])) =>
        LET ds == <<8, 0, 8, 4, 0>> \o [i \in 1..9 |-> int(npi.s[i])]
            check == (10 - (LuhnSumFromRight(ds, 14) % 10)) % 10
        IN  /\ npi.valid <=> (check = int(npi.s[10]))
            /\ npi.s = NpiKnownValid => npi.valid

C10_Witness ==
    /\ npi.stage = "checked"
    /\ npi.s = NpiKnownValid
    /\ npi.valid

\* ----------------------------------------------------------- the processors
\* A table (DataFrame) is a sequence of rows; a row carries its index label and
\* the cells of the located code and description columns. A cell is NaN (a
\* missing value) or a text.

MaxRows == 2

Families == {"HCPCS", "ICD10CM", "ICD10WHO", "LOINC", "RXNORM", "SNOMED", "NPI"}

NaN == None

T_nan == <<"n", "a", "n">>

IsSpace(c) == c = " "

IsUpperLetter(c) == \E i \in 1..26 : UpperAlpha[i] = c

IsLetter(c) == \E i \in 1..26 : UpperAlpha[i] = c \/ LowerAlpha[i] = c

UpperChar(c) ==
    IF \E i \in 1..26 : LowerAlpha[i] = c
    THEN UpperAlpha[CHOOSE i \in 1..26 : LowerAlpha[i] = c]
    ELSE c

\* str.strip()
strip(s) ==
    LET keep == { i \in 1..Len(s) : ~IsSpace(s[i]) }
    IN  IF keep = {} THEN <<>>
        ELSE SubSeq(s, CHOOSE i \in keep : \A j \in keep : i <= j,
                       CHOOSE i \in keep : \A j \in keep : j <= i)

\* str.upper()
upper(s) == [i \in 1..Len(s) |-> UpperChar(s[i])]

\* Variant of title that swaps the case of every letter.
title_SwapCase(s) ==
    [i \in 1..Len(s) |->
        IF IsUpperLetter(s[i]) THEN LowerChar(s[i]) ELSE UpperChar(s[i])]

\* str.title(): a letter that follows a letter is lowercased, any other
\* letter is uppercased.
title(s) ==
    [i \in 1..Len(s) |->
        IF i > 1 /\ IsLetter(s[i - 1]) THEN LowerChar(s[i]) ELSE UpperChar(s[i])]

\* Series.astype(str) on one cell. A missing value becomes the text "nan" with
\* object-dtype columns (pandas before 3.0) and stays missing with the string
\* dtype (pandas 3.0); na_as_text tells which pandas is installed.
astype_str(cell, na_as_text) ==
    IF cell = NaN THEN (IF na_as_text THEN Some(T_nan) ELSE NaN) ELSE cell

\* The .str accessor hands a missing value through.
str_strip(cell) == IF cell = NaN THEN NaN ELSE Some(strip(cell[1]))

str_upper(cell) == IF cell = NaN THEN NaN ELSE Some(upper(cell[1]))

str_title(cell) == IF cell = NaN THEN NaN ELSE Some(title(cell[1]))

\* Series.fillna("")
fillna(cell) == IF cell = NaN THEN Some(<<>>) ELSE cell

\* .str.replace(r"\D", "", regex=True)
str_replace_nondigits(cell) ==
    IF cell = NaN THEN NaN ELSE Some(SelectSeq(cell[1], IsDigitChar))

\* Series.replace("", pd.NA)
replace_empty_by_na(cell) == IF cell = Some(<<>>) THEN NaN ELSE cell

\* The rows of df at the positions in keep, in order (boolean-mask indexing).
Pick(df, keep) ==
    LET F[i \in 0..Len(df)] ==
          IF i = 0 THEN <<>>
          ELSE IF i \in keep THEN Append(F[i - 1], df[i]) ELSE F[i - 1]
    IN  F[Len(df)]

AllDigits(s) == \A i \in 1..Len(s) : IsDigitChar(s[i])

\* ^[A-V]\d{4}$
HCPCS_PATTERN(s) ==
    /\ Len(s) = 5
    /\ \E i \in 1..22 : UpperAlpha[i] = s[1]
    /\ AllDigits(SubSeq(s, 2, 5))

\* ^[A-Z][0-9]{2}(\.[0-9A-Z]{1,4})?$
ICD10CM_PATTERN(s) ==
    /\ Len(s) >= 3
    /\ IsUpperLetter(s[1])
    /\ AllDigits(SubSeq(s, 2, 3))
    /\ \/ Len(s) = 3
       \/ /\ Len(s) \in 5..8
          /\ s[4] = "."
          /\ \A i \in 5..Len(s) : IsDigitChar(s[i]) \/ IsUpperLetter(s[i])

\* ^[A-Z][0-9][0-9](\.[0-9A-Z]{1,4})?$
ICD10_PATTERN(s) ==
    /\ Len(s) >= 3
    /\ IsUpperLetter(s[1])
    /\ IsDigitChar(s[2])
    /\ IsDigitChar(s[3])
    /\ \/ Len(s) = 3
       \/ /\ Len(s) \in 5..8
          /\ s[4] = "."
          /\ \A i \in 5..Len(s) : IsDigitChar(s[i]) \/ IsUpperLetter(s[i])

\* ^[0-9]{1,5}-[0-9]$
LOINC_PATTERN(s) ==
    /\ Len(s) \in 3..7
    /\ AllDigits(SubSeq(s, 1, Len(s) - 2))
    /\ s[Len(s) - 1] = "-"
    /\ IsDigitChar(s[Len(s)])

\* ^\d+$
RXCUI_PATTERN(s) == Len(s) >= 1 /\ AllDigits(s)

\* ^\d{6,18}$
SNOMED_SCTID_PATTERN(s) == Len(s) \in 6..18 /\ AllDigits(s)

\* The family's pattern; for NPI the two masks of validate_npi_data.
PatternOf(family, s) ==
    CASE family = "HCPCS"    -> HCPCS_PATTERN(s)
      [] family = "ICD10CM"  -> ICD10CM_PATTERN(s)
      [] family = "ICD10WHO" -> ICD10_PATTERN(s)
      [] family = "LOINC"    -> LOINC_PATTERN(s)
      [] family = "RXNORM"   -> RXCUI_PATTERN(s)
      [] family = "SNOMED"   -> SNOMED_SCTID_PATTERN(s)
      [] family = "NPI"      -> Len(s) = 10 /\ AllDigits(s) /\ is_valid_npi(s)

\* Series.str.match(pattern, na=False) on one cell
str_match(family, cell) == cell /= NaN /\ PatternOf(family, cell[1])

\* What validate_*_data stores back into the code column.
NormalizeCode(family, cell, na_as_text) ==
    CASE family \in {"HCPCS", "ICD10CM", "ICD10WHO", "LOINC"} ->
            str_upper(str_strip(astype_str(cell, na_as_text)))
      [] family \in {"RXNORM", "SNOMED"} ->
            str_strip(astype_str(cell, na_as_text))
      [] family = "NPI" ->
            str_replace_nondigits(fillna(astype_str(cell, na_as_text)))

\* validate_*_data after the columns are located: the code column is
\* normalized in place, then the table is split by the mask.
validate_data(family, df, na_as_text) ==
    LET norm == [i \in 1..Len(df) |->
                    [df[i] EXCEPT !.code = NormalizeCode(family, df[i].code, na_as_text)]]
        valid_mask == { i \in 1..Len(df) : str_match(family, norm[i].code) }
    IN  [valid_rows   |-> Pick(norm, valid_mask),
         invalid_rows |-> Pick(norm, (1..Len(df)) \ valid_mask)]

basic_cleanup(df, na_as_text) ==
    [i \in 1..Len(df) |->
        [df[i] EXCEPT
            !.code = str_upper(str_strip(astype_str(df[i].code, na_as_text))),
            !.description =
                str_title(str_strip(astype_str(df[i].description, na_as_text)))]]

\* DataFrame.dropna(subset=["code"])
dropna_code(df) == Pick(df, { i \in 1..Len(df) : df[i].code /= NaN })

\* DataFrame.dropna(subset=["description"])
dropna_description(df) == Pick(df, { i \in 1..Len(df) : df[i].description /= NaN })

\* Variant of drop_duplicates that keeps every row.
drop_duplicates_KeepAll(df) == df

\* DataFrame.drop_duplicates(subset=["code"]): the first row of every code
drop_duplicates(df) ==
    Pick(df, { i \in 1..Len(df) : \A j \in 1..(i - 1) : df[j].code /= df[i].code })

\* build_description of the NPI processor. named: the table has the
\* organization-name column (the row's description cell); without any name
\* column the result is a fresh Series of "" labelled 0..len-1, which the
\* assignment aligns on the index: a row labelled outside gets NaN.
build_description(df, named) ==
    [i \in 1..Len(df) |->
        IF named THEN str_strip(fillna(df[i].description))
        ELSE IF df[i].idx < Len(df) THEN Some(<<>>) ELSE NaN]

\* clean_hcpcs_data and its copies in the ICD-10-CM, ICD-10 WHO, LOINC,
\* RxNorm and SNOMED processors
clean_codes_data(df, na_as_text) ==
    drop_duplicates(dropna_description(dropna_code(basic_cleanup(df, na_as_text))))

clean_npi_data(df, named, na_as_text) ==
    LET described == [i \in 1..Len(df) |->
                        [df[i] EXCEPT !.description = build_description(df, named)[i]]]
        cleaned   == dropna_code(basic_cleanup(described, na_as_text))
        replaced  == [i \in 1..Len(cleaned) |->
                        [cleaned[i] EXCEPT
                            !.description = replace_empty_by_na(cleaned[i].description)]]
    IN  drop_duplicates(dropna_description(replaced))

\* The family's clean step. named is FALSE when the table is a clean output
\* (columns code, description, last_updated).
clean_data(family, df, named, na_as_text) ==
    IF family = "NPI" THEN clean_npi_data(df, named, na_as_text)
    ELSE clean_codes_data(df, na_as_text)

\* The code cells a raw table of the family may hold: a valid code, a second
\* spelling of the same code, another valid code, a code the pattern rejects,
\* a missing value.
CodeCells(family) ==
    {NaN} \cup
    CASE family = "HCPCS"    -> {Some(<<"A", "0", "4", "2", "8">>), Some(<<" ", "a", "0", "4", "2", "8">>), Some(<<"V", "5", "3", "6", "4">>), Some(<<"W", "0", "4", "2", "8">>)}
      [] family = "ICD10CM"  -> {Some(<<"A", "0", "0", ".", "1">>), Some(<<"a", "0", "0", ".", "1", " ">>), Some(<<"Z", "9", "9", ".", "8", "X">>), Some(<<"A", "0">>)}
      [] family = "ICD10WHO" -> {Some(<<"B", "0", "1">>), Some(<<" ", "b", "0", "1">>), Some(<<"C", "5", "0", ".", "9">>), Some(<<"B", "0", "1", ".">>)}
      [] family = "LOINC"    -> {Some(<<"1", "2", "3", "4", "-", "5">>), Some(<<" ", "1", "2", "3", "4", "-", "5">>), Some(<<"2", "-", "8">>), Some(<<"1", "2", "3", "4", "5">>)}
      [] family = "RXNORM"   -> {Some(<<"1", "6", "1">>), Some(<<"1", "6", "1", " ">>), Some(<<"7">>), Some(<<"1", "6", "A">>)}
      [] family = "SNOMED"   -> {Some(<<"1", "2", "3", "4", "5", "6">>), Some(<<" ", "1", "2", "3", "4", "5", "6">>), Some(<<"1", "2", "3", "4", "5", "6", "7">>), Some(<<"1", "2", "3", "4", "5">>)}
      [] family = "NPI"      -> {Some(<<"1", "2", "3", "4", "5", "6", "7", "8", "9", "3">>), Some(<<"1", "2", "3", "-", "4", "5", "6", "-", "7", "8", "9", "3">>),
                                 Some(<<"9", "8", "7", "6", "5", "4", "3", "2", "1", "3">>), Some(<<"1", "2", "3", "4", "5", "6", "7", "8", "9", "0">>)}

\* The description cells: a text, a whitespace-only text, a missing value
\* (read_csv reads an empty cell as a missing value).
DescriptionCells == {NaN, Some(<<" ", " ">>), Some(<<"a", "b", " ", "c">>)}

Tables(family) ==
    UNION { [1..n -> [code : CodeCells(family), description : DescriptionCells]] :
              n \in 0..MaxRows }

\* read_csv labels the rows 0, 1, 2, ...
Labelled(t) ==
    [i \in 1..Len(t) |-> [idx |-> i - 1, code |-> t[i].code,
                          description |-> t[i].description]]

InitTable ==
    /\ \E f \in Families, b \in BOOLEAN :
          tab \in { [stage |-> "input", family |-> f, na_as_text |-> b,
                     raw |-> Labelled(t)] : t \in Tables(f) }
    /\ cols = [stage |-> "idle"]
    /\ res = [stage |-> "idle"]
    /\ sel = [stage |-> "idle"]
    /\ npi = [stage |-> "idle"]
    /\ IdleEnsure

\* validate_*_data on the table read
Validate ==
    /\ tab.stage = "input"
    /\ tab' = [stage |-> "validated", family |-> tab.family,
               na_as_text |-> tab.na_as_text, raw |-> tab.raw,
               valid |-> validate_data(tab.family, tab.raw, tab.na_as_text).valid_rows,
               invalid |-> validate_data(tab.family, tab.raw, tab.na_as_text).invalid_rows]
    /\ UNCHANGED <<ensure_vars, sel, npi, cols, res>>

\* clean_*_data on the valid rows
Clean ==
    /\ tab.stage = "validated"
    /\ tab' = [stage |-> "cleaned", family |-> tab.family,
               na_as_text |-> tab.na_as_text, raw |-> tab.raw,
               valid |-> tab.valid, invalid |-> tab.invalid,
               clean |-> clean_data(tab.family, tab.valid, TRUE, tab.na_as_text)]
    /\ UNCHANGED <<ensure_vars, sel, npi, cols, res>>

\* clean_*_data once more, on the table the first call returned
CleanAgain ==
    /\ tab.stage = "cleaned"
    /\ tab' = [stage |-> "recleaned", family |-> tab.family,
               na_as_text |-> tab.na_as_text, raw |-> tab.raw,
               valid |-> tab.valid, invalid |-> tab.invalid, clean |-> tab.clean,
               again |-> clean_data(tab.family, tab.clean, FALSE, tab.na_as_text)]
    /\ UNCHANGED <<ensure_vars, sel, npi, cols, res>>

NextTable == Validate \/ Clean \/ CleanAgain

TableSpec == InitTable /\ [][NextTable]_vars

\* ---------------------------------------------------------- processor claims

IsBlank(cell) == cell = NaN \/ \A i \in 1..Len(cell[1]) : cell[1][i] = " "

CleanOutput == IF tab.stage \in {"cleaned", "recleaned"} THEN tab.clean ELSE <<>>

\* C11: every record of a family's clean output has a description that is
\* non-empty after trimming, whatever the description cells of the input held.
C11_DescriptionNonEmpty ==
    \A i \in 1..Len(CleanOutput) : ~IsBlank(CleanOutput[i].description)

\* The raw rows that passed validation, by their index labels.
ValidatedRaw ==
    { i \in 1..Len(tab.raw) : \E j \in 1..Len(tab.valid) : tab.valid[j].idx = tab.raw[i].idx }

OccursOnce(df, code) == Cardinality({ i \in 1..Len(df) : df[i].code = code }) = 1

NormalizedInput(family, s) ==
    IF family = "NPI" THEN SelectSeq(s, IsDigitChar) ELSE upper(strip(s))

Records(df) == { <<df[i].code, df[i].description>> : i \in 1..Len(df) }

\* C13 as stated: a family's clean step applied to its own output yields the
\* same rows, with the same codes and descriptions.
C13_CleanIdempotent ==
    tab.stage = "recleaned" =>
        /\ Len(tab.again) = Len(tab.clean)
        /\ Records(tab.again) = Records(tab.clean)

\* C13 (amended): for every family but NPI, the clean step applied to its own
\* output yields the same rows, with the same codes and descriptions.
C13_CleanIdempotentButNpi ==
    (tab.stage = "recleaned" /\ tab.family /= "NPI") =>
        /\ Len(tab.again) = Len(tab.clean)
        /\ Records(tab.again) = Records(tab.clean)

\* A table with two records, which the first clean step did change, has been
\* cleaned a second time.
C13_Witness ==
    /\ tab.stage = "recleaned"
    /\ tab.family /= "NPI"
    /\ Len(tab.clean) = 2
    /\ Records(tab.clean) /= Records(tab.raw)
    /\ Len(tab.raw) = 2

\* ------------------------------------------------------- locating columns
\* A header is the sequence of the column names of the table read.

MaxCols == 3

\* lower_map = {c.lower(): c for c in columns}; lower_map.get(key): of the
\* columns that agree with key in lowercase the dict keeps the last.
lower_map_get(columns, key) ==
    LET hits == { i \in 1..Len(columns) : Lower(columns[i]) = key }
    IN  IF hits = {} THEN None
        ELSE Some(columns[CHOOSE i \in hits : \A j \in hits : j <= i])

\* find_column: the column of the first candidate that the map holds.
find_column(candidates, columns) ==
    LET hit == { k \in 1..Len(candidates) :
                   Truthy(lower_map_get(columns, Lower(candidates[k]))) }
    IN  IF hit = {} THEN None
        ELSE lower_map_get(columns,
                 Lower(candidates[CHOOSE k \in hit : \A j \in hit : k <= j]))

HCPCS_CODE == <<<<"H", "C", "P", "C", "S">>, <<"C", "o", "d", "e">>, <<"c", "o", "d", "e">>>>

\* also the description candidates of the ICD-10-CM processor
HCPCS_DESC == <<<<"L", "o", "n", "g", " ", "D", "e", "s", "c", "r", "i", "p", "t", "i", "o", "n">>, <<"D", "e", "s", "c", "r", "i", "p", "t", "i", "o", "n">>, <<"S", "h", "o", "r", "t", " ", "D", "e", "s", "c", "r", "i", "p", "t", "i", "o", "n">>, <<"d", "e", "s", "c">>, <<"D", "e", "s", "c">>>>

ICD10CM_CODE == <<<<"C", "o", "d", "e">>, <<"c", "o", "d", "e">>>>

WHO_CODE == <<<<"C", "o", "d", "e">>>>

WHO_DESC == <<<<"D", "e", "s", "c", "r", "i", "p", "t", "i", "o", "n">>>>

LOINC_CODE == <<<<"L", "O", "I", "N", "C", "_", "N", "U", "M">>, <<"L", "o", "i", "n", "c", "N", "u", "m">>, <<"c", "o", "d", "e">>>>

LOINC_DESC ==
    <<<<"L", "O", "N", "G", "_", "C", "O", "M", "M", "O", "N", "_", "N", "A", "M", "E">>, <<"S", "h", "o", "r", "t", "N", "a", "m", "e">>, <<"C", "o", "m", "p", "o", "n", "e", "n", "t">>, <<"D", "e", "s", "c", "r", "i", "p", "t", "i", "o", "n">>, <<"L", "O", "N", "G", "_", "C", "O", "M", "M", "O", "N", "_", "N", "A", "M", "E", "_", "T", "E", "X", "T">>>>

RXNORM_CODE == <<<<"R", "X", "C", "U", "I">>, <<"r", "x", "c", "u", "i">>, <<"R", "X", "C", "U", "I", "_", "I", "D">>, <<"c", "o", "d", "e">>>>

RXNORM_DESC == <<<<"S", "T", "R">>, <<"S", "t", "r", "i", "n", "g">>, <<"N", "a", "m", "e">>, <<"D", "e", "s", "c", "r", "i", "p", "t", "i", "o", "n">>>>

SNOMED_CODE == <<<<"c", "o", "n", "c", "e", "p", "t", "I", "d">>, <<"C", "o", "n", "c", "e", "p", "t", " ", "I", "D">>, <<"i", "d">>, <<"c", "o", "d", "e">>, <<"s", "c", "t", "i", "d">>>>

SNOMED_DESC ==
    <<<<"F", "S", "N">>, <<"F", "u", "l", "l", "y", " ", "S", "p", "e", "c", "i", "f", "i", "e", "d", " ", "N", "a", "m", "e">>, <<"t", "e", "r", "m">>, <<"T", "e", "r", "m">>, <<"P", "r", "e", "f", "e", "r", "r", "e", "d", " ", "T", "e", "r", "m">>, <<"P", "T">>, <<"D", "e", "s", "c", "r", "i", "p", "t", "i", "o", "n">>>>

NPI_CODE == <<<<"N", "P", "I">>, <<"n", "p", "i">>>>

\* The candidate names of the code column.
CodeCandidates(family) ==
    CASE family = "HCPCS"    -> HCPCS_CODE
      [] family = "ICD10CM"  -> ICD10CM_CODE
      [] family = "ICD10WHO" -> WHO_CODE
      [] family = "LOINC"    -> LOINC_CODE
      [] family = "RXNORM"   -> RXNORM_CODE
      [] family = "SNOMED"   -> SNOMED_CODE
      [] family = "NPI"      -> NPI_CODE

\* The candidate names of the description column. The NPI processor locates
\* no description column: it builds the description from name columns.
DescriptionCandidates(family) ==
    CASE family = "HCPCS"    -> HCPCS_DESC
      [] family = "ICD10CM"  -> HCPCS_DESC
      [] family = "ICD10WHO" -> WHO_DESC
      [] family = "LOINC"    -> LOINC_DESC
      [] family = "RXNORM"   -> RXNORM_DESC
      [] family = "SNOMED"   -> SNOMED_DESC
      [] family = "NPI"      -> <<>>

\* ICD-10 WHO: "if col not in df.columns" for "Code", then "Description"
exact_column(name, columns) ==
    IF \E i \in 1..Len(columns) : columns[i] = name THEN Some(name) ELSE None

FoundColumns(code_col, desc_col) ==
    [error |-> None, code_col |-> code_col, desc_col |-> desc_col]

MissingColumn(message) == [error |-> Some(message), code_col |-> None, desc_col |-> None]

CodeMissingMessage(family) ==
    CASE family = "HCPCS"    -> "Missing required column: HCPCS/Code"
      [] family = "ICD10CM"  -> "Missing required column: Code"
      [] family = "LOINC"    -> "Missing required column: LOINC_NUM"
      [] family = "RXNORM"   -> "Missing required column: RXCUI"
      [] family = "SNOMED"   ->
            "Missing required column for SNOMED concept identifier (e.g., conceptId)"

DescriptionMissingMessage(family) ==
    CASE family \in {"HCPCS", "ICD10CM", "LOINC"} -> "Missing required description column"
      [] family = "RXNORM"   -> "Missing required description column (e.g., STR)"
      [] family = "SNOMED"   ->
            "Missing required description-like column (FSN/term/Description)"

\* The head of validate_*_data: the columns located, or the ValueError raised.
locate_columns(family, columns) ==
    IF family = "ICD10WHO" THEN
        IF exact_column(WHO_CODE[1], columns) = None
        THEN MissingColumn("Missing required column: Code")
        ELSE IF exact_column(WHO_DESC[1], columns) = None
        THEN MissingColumn("Missing required column: Description")
        ELSE FoundColumns(Some(WHO_CODE[1]), Some(WHO_DESC[1]))
    ELSE IF family = "NPI" THEN
        IF ~Truthy(find_column(NPI_CODE, columns))
        THEN MissingColumn("Missing required column: NPI")
        ELSE FoundColumns(find_column(NPI_CODE, columns), None)
    ELSE
        IF ~Truthy(find_column(CodeCandidates(family), columns))
        THEN MissingColumn(CodeMissingMessage(family))
        ELSE IF ~Truthy(find_column(DescriptionCandidates(family), columns))
        THEN MissingColumn(DescriptionMissingMessage(family))
        ELSE FoundColumns(find_column(CodeCandidates(family), columns),
                          find_column(DescriptionCandidates(family), columns))

\* The column names a header may hold.
ColumnNames ==
    {<<"C", "o", "d", "e">>,
     <<"c", "o", "d", "e">>,
     <<"C", "O", "D", "E">>,
     <<"H", "C", "P", "C", "S">>,
     <<"D", "e", "s", "c", "r", "i", "p", "t", "i", "o", "n">>,
     <<"d", "e", "s", "c", "r", "i", "p", "t", "i", "o", "n">>,
     <<"L", "o", "n", "g", " ", "D", "e", "s", "c", "r", "i", "p", "t", "i", "o", "n">>,
     <<"N", "P", "I">>,
     <<"N", "o", "t", "e", "s">>}

Headers == UNION { [1..n -> ColumnNames] : n \in 0..MaxCols }

InitCols ==
    /\ cols \in { [stage |-> "input", family |-> f, columns |-> h] :
                    f \in Families, h \in Headers }
    /\ tab = [stage |-> "idle"]
    /\ res = [stage |-> "idle"]
    /\ sel = [stage |-> "idle"]
    /\ npi = [stage |-> "idle"]
    /\ IdleEnsure

\* validate_*_data finds its columns.
Locate ==
    /\ cols.stage = "input"
    /\ locate_columns(cols.family, cols.columns).error = None
    /\ cols' = [stage |-> "found", family |-> cols.family, columns |-> cols.columns,
                code_col |-> locate_columns(cols.family, cols.columns).code_col,
                desc_col |-> locate_columns(cols.family, cols.columns).desc_col]
    /\ UNCHANGED <<ensure_vars, sel, npi, tab, res>>

\* validate_*_data raises ValueError for a missing column.
LocateFails ==
    /\ cols.stage = "input"
    /\ locate_columns(cols.family, cols.columns).error /= None
    /\ cols' = [stage |-> "error", family |-> cols.family, columns |-> cols.columns,
                message |-> locate_columns(cols.family, cols.columns).error[1]]
    /\ UNCHANGED <<ensure_vars, sel, npi, tab, res>>

NextCols == Locate \/ LocateFails

ColsSpec == InitCols /\ [][NextCols]_vars

\* The candidates that equal some column name ignoring case, by position.
MatchingCandidates(candidates, columns) ==
    { k \in 1..Len(candidates) :
        \E i \in 1..Len(columns) : Lower(columns[i]) = Lower(candidates[k]) }

\* col is a column of the header that equals, ignoring case, the first of the
\* candidates that equals any column ignoring case.
FirstCandidateWins(col, candidates, columns) ==
    /\ col /= None
    /\ \E i \in 1..Len(columns) : columns[i] = col[1]
    /\ \E k \in MatchingCandidates(candidates, columns) :
          /\ \A j \in MatchingCandidates(candidates, columns) : k <= j
          /\ Lower(col[1]) = Lower(candidates[k])

\* The families whose validation locates a description column.
LocatesDescription(family) == family /= "NPI"

\* C14: for every family the code and description columns are located by a
\* case-insensitive lookup in which the first candidate that equals some
\* column name ignoring case wins, and validation fails with a "missing
\* required column" error when no candidate matches any column.
C14_CaseInsensitiveLookup ==
    cols.stage \in {"found", "error"} =>
        LET code_cands == CodeCandidates(cols.family)
            desc_cands == DescriptionCandidates(cols.family)
            missing ==
                \/ MatchingCandidates(code_cands, cols.columns) = {}
                \/ /\ LocatesDescription(cols.family)
                   /\ MatchingCandidates(desc_cands, cols.columns) = {}
        IN  IF missing THEN cols.stage = "error"
            ELSE /\ cols.stage = "found"
                 /\ FirstCandidateWins(cols.code_col, code_cands, cols.columns)
                 /\ LocatesDescription(cols.family) =>
                        FirstCandidateWins(cols.desc_col, desc_cands, cols.columns)

\* ------------------------------------------- ensure_file claims, continued

\* The errors of lines 122-125.
DownloadErrors == {"ConnectionError", "HTTPError", "ValueError: Downloaded file is empty"}

\* The failure of the current attempt is caught and recorded, and the next
\* attempt or, after the last, the local file check follows; nothing is raised.
CaughtStep ==
    /\ outcomes' = Append(outcomes, "failed")
    /\ raised' = None
    /\ returned' = None
    /\ IF attempt < retries
       THEN pc' = "downloading" /\ attempt' = attempt + 1
       ELSE pc' = "local_check"

\* C15 as stated: an attempt fails when the status is not 2xx, the request
\* raises, or the body is empty; every such failure is caught, recorded as the
\* last error and followed by the next attempt or exhaustion.
C15_FailsOnNon2xx ==
    [][pc = "downloading" =>
          /\ (pc' = "classify") =>
                (~resp'.exc /\ resp'.status \in 200..299 /\ resp'.body.len > 0)
          /\ (pc' /= "classify") =>
                (CaughtStep /\ last_error' \in DownloadErrors)]_vars

\* C15 (amended): an attempt fails when the status is an error status (4xx or
\* 5xx), the request raises, or the body is empty; every such failure is
\* caught, recorded as the last error and followed by the next attempt or
\* exhaustion.
C15_FailsOnErrorStatus ==
    [][pc = "downloading" =>
          /\ (pc' = "classify") =>
                (~resp'.exc /\ resp'.status \notin 400..599 /\ resp'.body.len > 0)
          /\ (pc' /= "classify") =>
                (CaughtStep /\ last_error' \in DownloadErrors)]_vars

\* The first attempt got an error status, and the second is about to start.
C15_Witness ==
    /\ pc = "downloading"
    /\ attempt = 2
    /\ outcomes = <<"failed">>
    /\ last_error = "HTTPError"

\* The body is no zip archive at all.
Unreadable(body) == body.zip = None

\* The archive lists no entry but directories.
NoFileEntries(body) ==
    /\ body.zip /= None
    /\ \A i \in 1..Len(body.zip[1]) : EndsWith(body.zip[1][i].filename, <<"/">>)

\* C16: an unreadable archive, or an archive with no file entries, is handled
\* like a failed download: it consumes the attempt, the next attempt downloads
\* again, after the last attempt the local file is checked, and ensure_file
\* is never ended by it directly.
C16_BadArchiveIsFailedAttempt ==
    [][(pc = "extract" /\ (Unreadable(resp.body) \/ NoFileEntries(resp.body))) =>
          /\ CaughtStep
          /\ last_error' = IF Unreadable(resp.body) THEN "BadZipFile"
                           ELSE "ValueError: Zip file contains no files"
          /\ files' = files
          /\ gets' = gets]_vars

\* After an unreadable archive the second attempt has downloaded again.
C16_Witness ==
    /\ pc = "classify"
    /\ attempt = 2
    /\ Len(gets) = 2
    /\ outcomes = <<"failed">>
    /\ last_error = "BadZipFile"
    /\ files = files0

\* ------------------------------------------ selection claims, continued

\* The positions of the archive's file entries (no directories).
FileEntriesAt(infolist) ==
    { i \in 1..Len(infolist) : infolist[i].filename[Len(infolist[i].filename)] /= "/" }

\* The positions left by the textual filter, the include narrowing and the
\* exclude pattern.
FilteredAt(infolist, prefer, exclude) ==
    { i \in NarrowedAt(infolist, prefer) :
        ~(Supplied(exclude) /\ Occurs(exclude[1], infolist[i].filename)) }

\* The entries at the given positions, in archive order.
EntriesAt(infolist, at) ==
    LET F[i \in 0..Len(infolist)] ==
          IF i = 0 THEN <<>>
          ELSE IF i \in at THEN Append(F[i - 1], infolist[i]) ELSE F[i - 1]
    IN  F[Len(infolist)]

\* C17: if no candidate is left after the textual filter, the include pattern
\* and the exclude pattern, the entry is selected from all file entries of the
\* archive, non-textual and excluded ones included; the extraction goes on.
C17_FallbackToAllEntries ==
    (/\ sel.stage \in {"chosen", "no_files"}
     /\ FileEntriesAt(sel.infolist) /= {}
     /\ FilteredAt(sel.infolist, sel.prefer, sel.exclude) = {})
    => /\ sel.stage = "chosen"
       /\ sel.final = EntriesAt(sel.infolist, FileEntriesAt(sel.infolist))
       /\ \E i \in FileEntriesAt(sel.infolist) :
             /\ sel.chosen = sel.infolist[i]
             /\ \A j \in FileEntriesAt(sel.infolist) :
                   sel.infolist[j].file_size <= sel.chosen.file_size

\* The only textual entry is excluded, and the larger non-textual one is taken.
C17_Witness ==
    /\ sel.stage = "chosen"
    /\ sel.infolist = <<ZI(N_header_csv, 10, "ok"), ZI(N_readme_pdf, 90000, "ok")>>
    /\ sel.prefer = None
    /\ sel.exclude = Some(P_header)
    /\ sel.chosen = ZI(N_readme_pdf, 90000, "ok")

\* The positions of the final candidate set.
FinalAt(infolist, prefer, exclude) ==
    IF FilteredAt(infolist, prefer, exclude) = {} THEN FileEntriesAt(infolist)
    ELSE FilteredAt(infolist, prefer, exclude)

\* C18: the entry extracted is the entry of the final candidate set whose
\* uncompressed size is maximal; among several of maximal size, the first in
\* archive order.
C18_LargestFirstOnTies ==
    sel.stage = "chosen" =>
        LET at == FinalAt(sel.infolist, sel.prefer, sel.exclude)
        IN  \E i \in at :
              /\ sel.chosen = sel.infolist[i]
              /\ \A j \in at : sel.infolist[j].file_size <= sel.infolist[i].file_size
              /\ \A j \in at : j < i => sel.infolist[j].file_size < sel.infolist[i].file_size

\* Two candidates of the same, maximal size: the first is taken.
C18_Witness ==
    /\ sel.stage = "chosen"
    /\ sel.infolist = <<ZI(N_data_old_csv, 50000, "ok"), ZI(N_data_csv, 50000, "ok")>>
    /\ sel.prefer = None
    /\ sel.exclude = None
    /\ sel.chosen = ZI(N_data_old_csv, 50000, "ok")

\* The path of a URL: what precedes the query string or the fragment.
UrlPath(u) ==
    LET marks == { i \in 1..Len(u) : u[i] \in {"?", "#"} }
    IN  IF marks = {} THEN u
        ELSE SubSeq(u, 1, (CHOOSE i \in marks : \A j \in marks : i <= j) - 1)

\* C19: a downloaded response is handled as an archive exactly when the path
\* of the URL ends in ".zip" (also when a query string or a fragment follows
\* the path) or the content type contains "zip"; otherwise it is a direct file.
C19_ArchiveIffZipPath ==
    pc \in {"extract", "direct_write"} =>
        (pc = "extract" <=>
            \/ EndsWith(Lower(UrlPath(url)), S_zip)
            \/ Occurs(S_zipword, Lower(resp.content_type)))

\* The extension of an entry name: the last "." of its last component and what
\* follows, when something precedes the "." and something follows it.
ExtensionAt(name) ==
    { i \in 2..(Len(name) - 1) :
        /\ name[i] = "."
        /\ name[i - 1] /= "/"
        /\ \A j \in (i + 1)..Len(name) : name[j] \notin {".", "/"} }

Extension(name) ==
    IF ExtensionAt(name) = {} THEN <<>>
    ELSE SubSeq(name, CHOOSE i \in ExtensionAt(name) : TRUE, Len(name))

\* The entry the selection rule names: the first of maximal size among the
\* final candidates.
SelectedEntry(infolist, prefer, exclude) ==
    LET at == FinalAt(infolist, prefer, exclude)
    IN  infolist[CHOOSE i \in at :
                   /\ \A j \in at : infolist[j].file_size <= infolist[i].file_size
                   /\ \A j \in at : j < i => infolist[j].file_size < infolist[i].file_size]

\* C20: on a successful extraction the path returned is local_path with its
\* extension replaced by the selected entry's own extension (kept when the
\* entry has none), and the file there holds exactly the entry's bytes.
C20_ExtractedPathAndBytes ==
    [][(pc = "extract" /\ pc' = "done") =>
          LET chosen == SelectedEntry(resp.body.zip[1], prefer_regex, exclude_regex)
              target == [stem |-> RawStem,
                         suffix |-> IF Extension(chosen.filename) /= <<>>
                                    THEN Extension(chosen.filename) ELSE S_csv]
          IN  /\ returned' = Some(target)
              /\ files'[target] /= None
              /\ files'[target][1].len = chosen.file_size
              /\ chosen.file_size > 0 =>
                    (/\ files'[target][1].origin = "member"
                     /\ files'[target][1].name = chosen.filename)
              /\ \A p \in Paths \ {target} : files'[p] = files[p]]_vars

\* An entry with another extension has been extracted next to raw_path.
C20_Witness ==
    /\ pc = "done"
    /\ via = "extract"
    /\ returned = Some([stem |-> RawStem, suffix |-> <<".", "T", "X", "T">>])
    /\ returned /= Some(raw_path)
    /\ files[returned[1]] = Some(Bytes("member", N_header_TXT, 10))

\* --------------------------------------------------- default-URL resolvers
\* resolve_default_icd10cm_url, resolve_default_hcpcs_url and
\* resolve_default_icd10who_url: two candidate URLs, probed with HEAD.

Resolvers == {"icd10cm", "hcpcs", "icd10who"}

\* The year argument: absent, 0 or a year. The ICD-10 WHO resolver has none.
YearArgs(resolver) ==
    IF resolver = "icd10who" THEN {None} ELSE {None, Some(0), Some(2024)}

\* datetime.utcnow().year
UtcYears == {2025, 2026}

\* y = year or datetime.utcnow().year
EffectiveYear(year, utc_year) ==
    IF year /= None /\ year[1] /= 0 THEN year[1] ELSE utc_year

\* The year as the f-string writes it.
YearText(y) ==
    <<DigitChars[((y \div 1000) % 10) + 1], DigitChars[((y \div 100) % 10) + 1],
      DigitChars[((y \div 10) % 10) + 1], DigitChars[(y % 10) + 1]>>

\* The URL of a candidate year: the resolver's template with the year in it.
CandidateUrl(resolver, candidate_year) ==
    [template |-> resolver, year |-> YearText(candidate_year)]

\* for candidate_year in (y, y - 1)
CandidateYears(y) == <<y, y - 1>>

\* Variant of FallbackYear that falls back to the previous year.
FallbackYear_Previous(y) == y - 1

\* The year of the URL returned after the loop.
FallbackYear(y) == y

\* What requests.head gives: an exception, or a response with a status.
Probes ==
    { [exc |-> TRUE, status |-> 0] } \cup
    { [exc |-> FALSE, status |-> s] : s \in {200, 301, 404, 503} }

\* r.ok: raise_for_status would not raise
response_ok(status) == ~raise_for_status(status)

InitResolve ==
    /\ \E r \in Resolvers, u \in UtcYears :
          res \in { [stage |-> "input", resolver |-> r, year |-> a, utc_year |-> u] :
                     a \in YearArgs(r) }
    /\ tab = [stage |-> "idle"]
    /\ cols = [stage |-> "idle"]
    /\ sel = [stage |-> "idle"]
    /\ npi = [stage |-> "idle"]
    /\ IdleEnsure

\* The year is fixed and the loop entered.
ResolveStart ==
    /\ res.stage = "input"
    /\ res' = [stage |-> "probing", resolver |-> res.resolver, year |-> res.year,
               utc_year |-> res.utc_year,
               y |-> EffectiveYear(res.year, res.utc_year), k |-> 1, probes |-> <<>>]
    /\ UNCHANGED <<ensure_vars, sel, npi, tab, cols>>

\* One iteration: HEAD on the candidate; return it when r.ok, else go on.
Probe ==
    /\ res.stage = "probing"
    /\ res.k <= Len(CandidateYears(res.y))
    /\ \E o \in Probes :
          IF ~o.exc /\ response_ok(o.status)
          THEN res' = [stage |-> "returned", resolver |-> res.resolver,
                       year |-> res.year, utc_year |-> res.utc_year,
                       probes |-> Append(res.probes, o),
                       url |-> Some(CandidateUrl(res.resolver,
                                                 CandidateYears(res.y)[res.k]))]
          ELSE res' = [res EXCEPT !.k = res.k + 1, !.probes = Append(res.probes, o)]
    /\ UNCHANGED <<ensure_vars, sel, npi, tab, cols>>

\* After the loop: the URL returned when no probe succeeded.
ReturnFallback ==
    /\ res.stage = "probing"
    /\ res.k > Len(CandidateYears(res.y))
    /\ res' = [stage |-> "returned", resolver |-> res.resolver,
               year |-> res.year, utc_year |-> res.utc_year, probes |-> res.probes,
               url |-> Some(CandidateUrl(res.resolver, FallbackYear(res.y)))]
    /\ UNCHANGED <<ensure_vars, sel, npi, tab, cols>>

NextResolve == ResolveStart \/ Probe \/ ReturnFallback

ResolveSpec == InitResolve /\ [][NextResolve]_vars

\* ------------------------------------------------------- resolver claims

\* The year the candidates start from: the year asked for, else this year.
CurrentYear == IF res.year /= None /\ res.year[1] > 0 THEN res.year[1] ELSE res.utc_year

\* The candidates in priority order: current year, then previous year.
PriorityOrder ==
    <<[template |-> res.resolver, year |-> YearText(CurrentYear)],
      [template |-> res.resolver, year |-> YearText(CurrentYear - 1)]>>

\* The probes that succeeded, by position.
Succeeded ==
    { k \in 1..Len(res.probes) : ~res.probes[k].exc /\ res.probes[k].status < 400 }

\* The candidates were probed in order up to the first success, which is
\* the URL returned.
FirstSuccessReturned ==
    /\ Len(res.probes) \in Succeeded
    /\ Succeeded = {Len(res.probes)}
    /\ res.url = Some(PriorityOrder[Len(res.probes)])

\* C21 as stated: the resolver returns the first candidate, current year then
\* previous year, whose HEAD probe succeeds; when none does it still returns a
\* URL, and that URL is the final candidate of the sequence.
C21_FallbackIsFinalCandidate ==
    res.stage = "returned" =>
        /\ res.url /= None
        /\ IF Succeeded /= {} THEN FirstSuccessReturned
           ELSE /\ Len(res.probes) = Len(PriorityOrder)
                /\ res.url = Some(PriorityOrder[Len(PriorityOrder)])

\* C21 (amended): the resolver returns the first candidate, current year then
\* previous year, whose HEAD probe succeeds; when none does it still returns a
\* URL, and that URL is the first candidate of the sequence, the current year's.
C21_FallbackIsFirstCandidate ==
    res.stage = "returned" =>
        /\ res.url /= None
        /\ IF Succeeded /= {} THEN FirstSuccessReturned
           ELSE /\ Len(res.probes) = Len(PriorityOrder)
                /\ res.url = Some(PriorityOrder[1])

\* Both probes failed, one by its status and one by an exception, and the
\* current year's URL is returned.
C21_Witness ==
    /\ res.stage = "returned"
    /\ Len(res.probes) = 2
    /\ res.probes[1].status = 404
    /\ res.probes[2].exc
    /\ res.url = Some(PriorityOrder[1])
    /\ PriorityOrder[1] /= PriorityOrder[2]

\* ---------------------------------------------- processor claims, continued

\* The raw rows that are in the invalid-rows output, by their index labels.
InvalidRaw ==
    { i \in 1..Len(tab.raw) :
        \E j \in 1..Len(tab.invalid) : tab.invalid[j].idx = tab.raw[i].idx }

\* C22: no input row is lost between validate and clean: every input row is
\* in the invalid-rows output, or its normalized code is a code of the clean
\* output; a row that passed validation is never missing from both.
C22_NoRowLost ==
    tab.stage \in {"cleaned", "recleaned"} =>
        \A i \in 1..Len(tab.raw) :
            \/ i \in InvalidRaw
            \/ /\ tab.raw[i].code /= NaN
               /\ \E k \in 1..Len(tab.clean) :
                     tab.clean[k].code =
                        Some(NormalizedInput(tab.family, tab.raw[i].code[1]))

====
